---- MODULE Spec2Model ----
(***************************************************************************)
(* Slack -> Expensify reimbursement bot (slack_expensify_bot.py, v2).      *)
(*                                                                         *)
(* The model has two kinds of threads:                                     *)
(*   - message-event handlers (handle_message_events), one per inbound     *)
(*     Slack event, run concurrently by the Bolt listener pool;            *)
(*   - poller threads (poll_smarts_scan), one per threading.Thread(...)    *)
(*     started by a handler.                                               *)
(* The environment (Slack file API, Slack chat API, Expensify integration  *)
(* server) answers every call with one of a small set of outcomes.         *)
(***************************************************************************)
EXTENDS Integers, Sequences, FiniteSets, TLC

\* ------------------------------------------------------------------ bounds
MaxPollsBound == 2      \* MAX_POLLS ranges over 0..MaxPollsBound
MaxAmount == 125000     \* amounts 1..MaxAmount (minor units) are formatted

\* -------------------------------------------------------------- constants
VALID_FILETYPES == {"png", "jpg", "jpeg", "pdf"}

Handlers == {"h1", "h2"}
Names == {"a", "b"}
FileTypes == {"png", "txt"}
File == [name : Names, filetype : FileTypes]
Slots == {1, 2}         \* positions in the files lists; at most this many files in all

RECURSIVE SeqsUpTo(_, _)
SeqsUpTo(S, n) ==
    IF n = 0 THEN {<<>>}
    ELSE LET shorter == SeqsUpTo(S, n - 1)
         IN  shorter \cup {Append(s, x) : s \in {t \in shorter : Len(t) = n - 1}, x \in S}

RECURSIVE SumLen(_, _)
SumLen(f, D) ==
    IF D = {} THEN 0
    ELSE LET d == CHOOSE x \in D : TRUE
         IN  Len(f[d]) + SumLen(f, D \ {d})

\* A receipt is one file of one inbound event: <<handler, index in files>>.
ReceiptIds == Handlers \X Slots

NoBytes == <<"none", 0>>

\* --------------------------------------------------- Expensify wire values
\* One expense dict of a "download" job's JSON output.
ExpProcessing ==
    [hasAmount |-> TRUE, amount |-> 0, merchant |-> "Slack Receipt",
     created |-> 86400, status |-> "", errorDetail |-> ""]
ExpNoAmount ==
    [hasAmount |-> FALSE, amount |-> 0, merchant |-> "Slack Receipt",
     created |-> 86400, status |-> "", errorDetail |-> ""]
ExpCompleted ==
    [hasAmount |-> TRUE, amount |-> 4200, merchant |-> "Cafe X",
     created |-> 172800, status |-> "", errorDetail |-> ""]
ExpError ==
    [hasAmount |-> TRUE, amount |-> 0, merchant |-> "Slack Receipt",
     created |-> 86400, status |-> "ERROR", errorDetail |-> "unreadable"]
ExpErrorAmount ==
    [hasAmount |-> TRUE, amount |-> 4200, merchant |-> "Cafe X",
     created |-> 172800, status |-> "ERROR", errorDetail |-> "unreadable"]
Expenses == {ExpProcessing, ExpNoAmount, ExpCompleted, ExpError, ExpErrorAmount}

\* What requests.post(EXPENSIFY_URL, download job) can produce:
\*   "raise" - the transport raised; "http" - status_code != 200;
\*   "text"  - 200 with a body that is not JSON; "json" - 200 with JSON.
Responses ==
    {[kind |-> k, expenses |-> <<>>] : k \in {"raise", "http", "text", "json"}}
    \cup {[kind |-> "json", expenses |-> <<e>>] : e \in Expenses}

NoResponse == [kind |-> "none", expenses |-> <<>>]

\* Mutant of fetch_expense: the status_code check is missing, a non-200
\* answer is read as "no expense".
fetch_expense_NoStatusCheck(resp) ==
    IF resp.kind = "raise"
    THEN [raised |-> TRUE, exc |-> resp.kind, exp |-> <<>>]
    ELSE IF resp.kind \in {"text", "http"}
    THEN [raised |-> FALSE, exc |-> "", exp |-> <<>>]
    ELSE [raised |-> FALSE, exc |-> "",
          exp |-> IF resp.expenses # <<>> THEN <<resp.expenses[1]>> ELSE <<>>]

\* fetch_expense: RuntimeError on a non-200 answer (a transport exception
\* propagates as well); None on a non-JSON body; else the first expense or
\* None.  None is the empty sequence, an expense dict e is <<e>>.
fetch_expense(resp) ==
    IF resp.kind \in {"raise", "http"}
    THEN [raised |-> TRUE, exc |-> resp.kind, exp |-> <<>>]
    ELSE IF resp.kind = "text"
    THEN [raised |-> FALSE, exc |-> "", exp |-> <<>>]
    ELSE [raised |-> FALSE, exc |-> "",
          exp |-> IF resp.expenses # <<>> THEN <<resp.expenses[1]>> ELSE <<>>]

\* Mutant of amount_cents: exp.get("amount") without the default, a missing
\* amount is not equal to 0.
amount_cents_NoDefault(e) == IF e.hasAmount THEN e.amount ELSE 0 - 1

\* exp.get("amount", 0)
amount_cents(e) == IF e.hasAmount THEN e.amount ELSE 0

\* time.strftime("%Y-%m-%d", time.localtime(created)): the calendar day.
date_str(created_unix) == created_unix \div 86400

\* f"{amount_cents / 100.0:,.2f}" for a non-negative amount: major units and
\* the two-digit fraction.
dollars(cents) == [major |-> cents \div 100, minor |-> cents % 100]

\* The characters of a decimal digit, of a natural number, and of a digit
\* string with "," before every group of three digits counted from the right.
DigitChar(n) == <<"0", "1", "2", "3", "4", "5", "6", "7", "8", "9">>[n + 1]

RECURSIVE Digits(_)
Digits(n) == IF n < 10 THEN <<DigitChar(n)>> ELSE Digits(n \div 10) \o <<DigitChar(n % 10)>>

RECURSIVE Grouped(_)
Grouped(ds) ==
    IF Len(ds) <= 3 THEN ds
    ELSE Grouped(SubSeq(ds, 1, Len(ds) - 3)) \o <<",">> \o SubSeq(ds, Len(ds) - 2, Len(ds))

Abs(n) == IF n < 0 THEN 0 - n ELSE n

\* Mutant of dollars_text: "amount_cents / 100" as an integer division, the
\* fraction is lost.
dollars_text_IntegerDivision(cents) ==
    (IF cents < 0 THEN <<"-">> ELSE <<>>)
    \o Grouped(Digits(Abs(cents) \div 100)) \o <<".", "0", "0">>

\* The characters of f"{amount_cents / 100.0:,.2f}": sign, the whole units in
\* groups of three, ".", two digits of hundredths.
dollars_text(cents) ==
    (IF cents < 0 THEN <<"-">> ELSE <<>>)
    \o Grouped(Digits(Abs(cents) \div 100))
    \o <<".", DigitChar((Abs(cents) % 100) \div 10), DigitChar(Abs(cents) % 10)>>

\* The text of a chat_postMessage of the poller: its message class and the
\* values formatted into it.
NoNote ==
    [class |-> "none", attempt |-> 0, detail |-> "", merchant |-> "",
     dollars |-> dollars(0), amountText |-> <<>>, date |-> 0]
\* Mutant of PendingNote: the attempt is counted from 0.
PendingNote_ZeroBased(attempt) ==
    [NoNote EXCEPT !.class = "pending", !.attempt = attempt - 1]
PendingNote(attempt) == [NoNote EXCEPT !.class = "pending", !.attempt = attempt]
ErrorNote(exc) == [NoNote EXCEPT !.class = "error", !.detail = exc]
SuccessNote(e) ==
    [NoNote EXCEPT !.class = "success", !.merchant = e.merchant,
                   !.dollars = dollars(amount_cents(e)),
                   !.amountText = dollars_text(amount_cents(e)),
                   !.date = date_str(e.created)]
TimeoutNote == [NoNote EXCEPT !.class = "timeout"]

\* ------------------------------------------------------------------ state
VARIABLES
    MAX_POLLS,  \* configuration, fixed at start
    events,     \* handler -> the files of its inbound event
    hpc,        \* handler -> position in handle_message_events
    hidx,       \* handler -> index of the file the loop is at
    hexc,       \* handler -> an exception is propagating through "finally"
    tmp,        \* file name -> bytes stored at TMP_DIR / name, or NoBytes
    rcpt,       \* receipt -> what the handler did for it
    task        \* receipt -> the poller thread started for it

vars == <<MAX_POLLS, events, hpc, hidx, hexc, tmp, rcpt, task>>

NoReceipt ==
    [fetch |-> "none", uploaded |-> NoBytes, submit |-> "none",
     ackSaid |-> 0, failSaid |-> 0, downloadSaid |-> 0, spawned |-> 0]

NoTask ==
    [pc |-> "none", key |-> "", attempt |-> 0, waits |-> 0, lookups |-> 0,
     resp |-> NoResponse, clean |-> TRUE, pending |-> 0, success |-> 0, error |-> 0,
     timeout |-> 0, note |-> NoNote, origin |-> <<"none", 0>>]

Init ==
    /\ MAX_POLLS \in 0..MaxPollsBound
    /\ events \in {f \in [Handlers -> SeqsUpTo(File, Cardinality(Slots))] :
                      /\ SumLen(f, Handlers) <= Cardinality(Slots)
                      \* the handlers are interchangeable: h1 has the longer event
                      /\ Len(f["h1"]) >= Len(f["h2"])}
    /\ hpc = [h \in Handlers |-> "loop"]
    /\ hidx = [h \in Handlers |-> 1]
    /\ hexc = [h \in Handlers |-> FALSE]
    /\ tmp = [n \in Names |-> NoBytes]
    /\ rcpt = [r \in ReceiptIds |-> NoReceipt]
    /\ task = [r \in ReceiptIds |-> NoTask]

\* Outcome of one say(...) / chat_postMessage(...): delivered, or the Slack
\* client raised.
Deliveries == {"ok", "raise"}

\* ------------------------------------------------- handle_message_events
Cur(h) == <<h, hidx[h]>>
CurFile(h) == events[h][hidx[h]]
AtFile(h) == hpc[h] = "loop" /\ hidx[h] <= Len(events[h])

\* "if not files: return", and the for loop running out of files.
HandlerReturn(h) ==
    /\ hpc[h] = "loop"
    /\ hidx[h] > Len(events[h])
    /\ hpc' = [hpc EXCEPT ![h] = "done"]
    /\ UNCHANGED <<MAX_POLLS, events, hidx, hexc, tmp, rcpt, task>>

\* Mutant of SkipFile: "break" in place of "continue".
SkipFile_Break(h) ==
    /\ AtFile(h)
    /\ CurFile(h).filetype \notin VALID_FILETYPES
    /\ hpc' = [hpc EXCEPT ![h] = "done"]
    /\ UNCHANGED <<MAX_POLLS, events, hidx, hexc, tmp, rcpt, task>>

\* "if file_info.get("filetype") not in VALID_FILETYPES: continue"
SkipFile(h) ==
    /\ AtFile(h)
    /\ CurFile(h).filetype \notin VALID_FILETYPES
    /\ hidx' = [hidx EXCEPT ![h] = @ + 1]
    /\ UNCHANGED <<MAX_POLLS, events, hpc, hexc, tmp, rcpt, task>>

\* client.files_info(...) or requests.get(...) raises: nothing in the
\* handler catches it, the handler ends with the files after this one
\* unvisited.
DownloadRaises(h) ==
    /\ AtFile(h)
    /\ CurFile(h).filetype \in VALID_FILETYPES
    /\ rcpt' = [rcpt EXCEPT ![Cur(h)].fetch = "raise"]
    /\ hpc' = [hpc EXCEPT ![h] = "crashed"]
    /\ UNCHANGED <<MAX_POLLS, events, hidx, hexc, tmp, task>>

\* resp.status_code != 200: say "Could not download", continue.
DownloadRefused(h) ==
    /\ AtFile(h)
    /\ CurFile(h).filetype \in VALID_FILETYPES
    /\ rcpt' = [rcpt EXCEPT ![Cur(h)].fetch = "http", ![Cur(h)].downloadSaid = @ + 1]
    /\ \E d \in Deliveries :
          IF d = "ok"
          THEN /\ hidx' = [hidx EXCEPT ![h] = @ + 1]
               /\ hpc' = hpc
          ELSE /\ hpc' = [hpc EXCEPT ![h] = "crashed"]
               /\ hidx' = hidx
    /\ UNCHANGED <<MAX_POLLS, events, hexc, tmp, task>>

\* The download succeeds: tmp_path.write_bytes(resp.content).
DownloadOk(h) ==
    /\ AtFile(h)
    /\ CurFile(h).filetype \in VALID_FILETYPES
    /\ tmp' = [tmp EXCEPT ![CurFile(h).name] = Cur(h)]
    /\ rcpt' = [rcpt EXCEPT ![Cur(h)].fetch = "ok"]
    /\ hpc' = [hpc EXCEPT ![h] = "submit"]
    /\ UNCHANGED <<MAX_POLLS, events, hidx, hexc, task>>

\* The ledger: an accepted create job adds one expense with externalID =
\* file name.  Holders(key) are the receipts whose expense has that externalID.
InLedger == {q \in ReceiptIds : rcpt[q].submit = "accepted"}
ExternalID(q) == events[q[1]][q[2]].name
Holders(key) == {q \in InLedger : ExternalID(q) = key}

\* What the create job's requests.post can produce.
SubmitOutcomes == {"accepted", "rejected", "raise"}

\* Mutant of Submit: the "resp.status_code != 200" check is missing, a
\* rejected create job counts as accepted by the handler.
Submit_NoStatusCheck(h) ==
    /\ hpc[h] = "submit"
    /\ IF tmp[CurFile(h).name] = NoBytes
       THEN /\ rcpt' = [rcpt EXCEPT ![Cur(h)].submit = "nofile"]
            /\ hpc' = [hpc EXCEPT ![h] = "except"]
       ELSE \E o \in SubmitOutcomes :
               /\ rcpt' = [rcpt EXCEPT ![Cur(h)].submit = o,
                                       ![Cur(h)].uploaded = tmp[CurFile(h).name]]
               /\ hpc' = [hpc EXCEPT ![h] = IF o = "raise" THEN "except" ELSE "ack"]
    /\ UNCHANGED <<MAX_POLLS, events, hidx, hexc, tmp, task>>

\* submit_to_expensify(tmp_path): filepath.open raises FileNotFoundError when
\* the file is gone; otherwise the create job is posted with the bytes now
\* in the file, and the ledger accepts it (200), rejects it (RuntimeError)
\* or the transport raises.
Submit(h) ==
    /\ hpc[h] = "submit"
    /\ IF tmp[CurFile(h).name] = NoBytes
       THEN /\ rcpt' = [rcpt EXCEPT ![Cur(h)].submit = "nofile"]
            /\ hpc' = [hpc EXCEPT ![h] = "except"]
       ELSE \E o \in SubmitOutcomes :
               /\ rcpt' = [rcpt EXCEPT ![Cur(h)].submit = o,
                                       ![Cur(h)].uploaded = tmp[CurFile(h).name]]
               /\ hpc' = [hpc EXCEPT ![h] = IF o = "accepted" THEN "ack" ELSE "except"]
    /\ UNCHANGED <<MAX_POLLS, events, hidx, hexc, tmp, task>>

\* The poller thread as threading.Thread(target=poll_smarts_scan,
\* args=(file_name, ...)).start() leaves it.
NewTask(file_name) == [NoTask EXCEPT !.pc = "loop", !.key = file_name]

\* try-body after a successful submit: say the acknowledgment, then start
\* the poller.  A raising say(...) skips the start and enters "except".
AckAndSpawn(h) ==
    /\ hpc[h] = "ack"
    /\ \E d \in Deliveries :
          IF d = "ok"
          THEN /\ rcpt' = [rcpt EXCEPT ![Cur(h)].ackSaid = @ + 1,
                                       ![Cur(h)].spawned = @ + 1]
               /\ task' = [task EXCEPT ![Cur(h)] = NewTask(CurFile(h).name)]
               /\ hpc' = [hpc EXCEPT ![h] = "finally"]
          ELSE /\ rcpt' = [rcpt EXCEPT ![Cur(h)].ackSaid = @ + 1]
               /\ task' = task
               /\ hpc' = [hpc EXCEPT ![h] = "except"]
    /\ UNCHANGED <<MAX_POLLS, events, hidx, hexc, tmp>>

\* except Exception: say "Failed to submit"; a raising say(...) propagates
\* through "finally".
SubmitFailed(h) ==
    /\ hpc[h] = "except"
    /\ rcpt' = [rcpt EXCEPT ![Cur(h)].failSaid = @ + 1]
    /\ \E d \in Deliveries : hexc' = [hexc EXCEPT ![h] = (d = "raise")]
    /\ hpc' = [hpc EXCEPT ![h] = "finally"]
    /\ UNCHANGED <<MAX_POLLS, events, hidx, tmp, task>>

\* Mutant of Unlink: the handler joins the poller thread before it goes on.
Unlink_Joins(h) ==
    /\ hpc[h] = "finally"
    /\ task[Cur(h)].pc \notin {"loop", "slept"}
    /\ tmp' = [tmp EXCEPT ![CurFile(h).name] = NoBytes]
    /\ IF hexc[h]
       THEN /\ hpc' = [hpc EXCEPT ![h] = "crashed"]
            /\ hidx' = hidx
       ELSE /\ hpc' = [hpc EXCEPT ![h] = "loop"]
            /\ hidx' = [hidx EXCEPT ![h] = @ + 1]
    /\ UNCHANGED <<MAX_POLLS, events, hexc, rcpt, task>>

\* finally: tmp_path.unlink(), FileNotFoundError ignored; then the next
\* file, or the propagating exception ends the handler.
Unlink(h) ==
    /\ hpc[h] = "finally"
    /\ tmp' = [tmp EXCEPT ![CurFile(h).name] = NoBytes]
    /\ IF hexc[h]
       THEN /\ hpc' = [hpc EXCEPT ![h] = "crashed"]
            /\ hidx' = hidx
       ELSE /\ hpc' = [hpc EXCEPT ![h] = "loop"]
            /\ hidx' = [hidx EXCEPT ![h] = @ + 1]
    /\ UNCHANGED <<MAX_POLLS, events, hexc, rcpt, task>>

\* ------------------------------------------------------ poll_smarts_scan
\* The spec's classes of a lookup answer: NOT_FOUND is a JSON answer with no
\* expense, PROCESSING an expense without error status whose amount is 0.
IsNotFound(resp) == resp.kind = "json" /\ resp.expenses = <<>>
IsProcessing(resp) ==
    /\ resp.kind = "json" /\ resp.expenses # <<>>
    /\ resp.expenses[1].status # "ERROR"
    /\ amount_cents(resp.expenses[1]) = 0

\* Mutant of Report: the "return" after the success message is missing, the
\* loop goes on polling.
Report_NoReturn(t, resp, d) ==
    LET res == fetch_expense(resp) IN
    IF res.raised
    THEN [t EXCEPT !.resp = resp, !.error = @ + 1, !.note = ErrorNote(res.exc),
                   !.pc = "LOOKUP_FAILED"]
    ELSE IF res.exp = <<>> \/ amount_cents(res.exp[1]) = 0
    THEN [t EXCEPT !.resp = resp, !.pending = @ + 1, !.note = PendingNote(t.attempt),
                   !.pc = IF d = "ok" THEN "loop" ELSE "CRASHED"]
    ELSE [t EXCEPT !.resp = resp, !.success = @ + 1, !.note = SuccessNote(res.exp[1]),
                   !.pc = IF d = "ok" THEN "loop" ELSE "CRASHED"]

\* The rest of the loop body after the lookup answered resp: what the poller
\* does with the result, as the task it leaves for a delivery outcome d of
\* its chat_postMessage.  A raising chat_postMessage ends the thread.
Report(t, resp, d) ==
    LET res == fetch_expense(resp) IN
    IF res.raised
    THEN [t EXCEPT !.resp = resp, !.error = @ + 1, !.note = ErrorNote(res.exc),
                   !.pc = "LOOKUP_FAILED"]
    ELSE IF res.exp = <<>> \/ amount_cents(res.exp[1]) = 0
    THEN [t EXCEPT !.resp = resp, !.pending = @ + 1, !.note = PendingNote(t.attempt),
                   !.pc = IF d = "ok" THEN "loop" ELSE "CRASHED"]
    ELSE [t EXCEPT !.resp = resp, !.success = @ + 1, !.note = SuccessNote(res.exp[1]),
                   !.pc = "COMPLETED"]

\* Mutant of Sleep: the attempt counter is one module-level variable, every
\* running poller's count moves when one poller starts a cycle.
Sleep_SharedAttempt(r) ==
    /\ task[r].pc = "loop"
    /\ task[r].attempt < MAX_POLLS
    /\ task' = [q \in ReceiptIds |->
                  IF q = r
                  THEN [task[r] EXCEPT
                          !.attempt = @ + 1, !.waits = @ + 1, !.pc = "slept",
                          !.clean = @ /\ (\/ task[r].resp = NoResponse
                                          \/ IsNotFound(task[r].resp)
                                          \/ IsProcessing(task[r].resp)),
                          !.resp = NoResponse]
                  ELSE IF task[q].pc \in {"loop", "slept"}
                  THEN [task[q] EXCEPT !.attempt = @ + 1]
                  ELSE task[q]]
    /\ UNCHANGED <<MAX_POLLS, events, hpc, hidx, hexc, tmp, rcpt>>

\* Mutant of Sleep: no time.sleep before the first lookup.
Sleep_NotBeforeFirst(r) ==
    /\ task[r].pc = "loop"
    /\ task[r].attempt < MAX_POLLS
    /\ task' = [task EXCEPT
                  ![r].attempt = @ + 1,
                  ![r].waits = IF task[r].attempt = 0 THEN @ ELSE @ + 1,
                  ![r].pc = "slept",
                  ![r].clean = @ /\ (\/ task[r].resp = NoResponse
                                     \/ IsNotFound(task[r].resp)
                                     \/ IsProcessing(task[r].resp)),
                  ![r].resp = NoResponse]
    /\ UNCHANGED <<MAX_POLLS, events, hpc, hidx, hexc, tmp, rcpt>>

\* "for attempt in range(1, MAX_POLLS + 1): time.sleep(POLL_INTERVAL_SEC)".
\* task.resp is the answer of the latest lookup; task.clean records that every
\* lookup before the latest one answered NOT_FOUND or PROCESSING.
Sleep(r) ==
    /\ task[r].pc = "loop"
    /\ task[r].attempt < MAX_POLLS
    /\ task' = [task EXCEPT
                  ![r].attempt = @ + 1, ![r].waits = @ + 1, ![r].pc = "slept",
                  ![r].clean = @ /\ (\/ task[r].resp = NoResponse
                                     \/ IsNotFound(task[r].resp)
                                     \/ IsProcessing(task[r].resp)),
                  ![r].resp = NoResponse]
    /\ UNCHANGED <<MAX_POLLS, events, hpc, hidx, hexc, tmp, rcpt>>

\* fetch_expense(external_id) and the message the loop body posts for it.
\* The expense a download job filtered by externalID lists first is any ledger
\* expense with that externalID (the order of the answer is the backend's);
\* task.origin is the receipt whose create job made the expense a success
\* message reports.
LookupAndReport(r) ==
    /\ task[r].pc = "slept"
    /\ \E resp \in Responses, d \in Deliveries, q \in Holders(task[r].key) :
          /\ (resp.expenses = <<>> \/ amount_cents(resp.expenses[1]) = 0) => q = r
          /\ task' = [task EXCEPT
                        ![r] = Report([task[r] EXCEPT !.lookups = @ + 1, !.origin = q],
                                      resp, d)]
    /\ UNCHANGED <<MAX_POLLS, events, hpc, hidx, hexc, tmp, rcpt>>

\* The loop ran out: the "hasn't finished after several minutes" message.
GiveUp(r) ==
    /\ task[r].pc = "loop"
    /\ task[r].attempt >= MAX_POLLS
    /\ task' = [task EXCEPT ![r].timeout = @ + 1, ![r].note = TimeoutNote,
                            ![r].pc = "TIMED_OUT"]
    /\ UNCHANGED <<MAX_POLLS, events, hpc, hidx, hexc, tmp, rcpt>>

HandlerStep(h) ==
    \/ HandlerReturn(h)
    \/ SkipFile(h)
    \/ DownloadRaises(h)
    \/ DownloadRefused(h)
    \/ DownloadOk(h)
    \/ Submit(h)
    \/ AckAndSpawn(h)
    \/ SubmitFailed(h)
    \/ Unlink(h)

TaskStep(r) == Sleep(r) \/ LookupAndReport(r) \/ GiveUp(r)

Next ==
    \/ \E h \in Handlers : HandlerStep(h)
    \/ \E r \in ReceiptIds : TaskStep(r)

Spec == Init /\ [][Next]_vars

\* ----------------------------------------- the success message's amount
\* One poller, started for an accepted receipt, whose lookup answers a
\* completed expense with any amount of a range.
BigAmounts == {999999, 1000000, 99999999, 100000000, 123456789}
Amounts == (1..MaxAmount) \cup BigAmounts

FmtReceipt == <<"h1", 1>>

InitFmt ==
    /\ MAX_POLLS \in 1..MaxPollsBound
    /\ events = [h \in Handlers |->
                    IF h = "h1" THEN <<[name |-> "a", filetype |-> "png"]>> ELSE <<>>]
    /\ hpc = [h \in Handlers |-> IF h = "h1" THEN "finally" ELSE "loop"]
    /\ hidx = [h \in Handlers |-> 1]
    /\ hexc = [h \in Handlers |-> FALSE]
    /\ tmp = [n \in Names |-> IF n = "a" THEN FmtReceipt ELSE NoBytes]
    /\ rcpt = [r \in ReceiptIds |->
                  IF r = FmtReceipt
                  THEN [NoReceipt EXCEPT !.fetch = "ok", !.uploaded = FmtReceipt,
                                         !.submit = "accepted", !.ackSaid = 1,
                                         !.spawned = 1]
                  ELSE NoReceipt]
    /\ task = [r \in ReceiptIds |-> IF r = FmtReceipt THEN NewTask("a") ELSE NoTask]

\* fetch_expense answers an expense with amount a; the loop body reports it.
LookupAmount(r) ==
    /\ task[r].pc = "slept"
    /\ \E a \in Amounts, d \in Deliveries :
          task' = [task EXCEPT
                     ![r] = Report([task[r] EXCEPT !.lookups = @ + 1, !.origin = r],
                                   [kind |-> "json",
                                    expenses |-> <<[ExpCompleted EXCEPT !.amount = a]>>],
                                   d)]
    /\ UNCHANGED <<MAX_POLLS, events, hpc, hidx, hexc, tmp, rcpt>>

NextFmt == Sleep(FmtReceipt) \/ LookupAmount(FmtReceipt)

FmtSpec == InitFmt /\ [][NextFmt]_vars

\* ------------------------------------------------------------- vocabulary
Terminal == {"COMPLETED", "ERROR", "LOOKUP_FAILED", "TIMED_OUT"}

\* The poller thread has ended, by return or by an uncaught exception.
Ended(t) == t.pc \in Terminal \cup {"CRASHED"}

\* The poller has performed a lookup and acted on its answer t.resp.
Reported(t) == t.pc \in {"loop", "CRASHED"} \cup Terminal /\ t.resp # NoResponse

TerminalNotes(t) == t.success + t.error + t.timeout

\* A record the spec classes COMPLETED: no error status, non-zero amount.
IsCompleted(resp) ==
    /\ resp.kind = "json" /\ resp.expenses # <<>>
    /\ resp.expenses[1].status # "ERROR"
    /\ amount_cents(resp.expenses[1]) # 0

IsErrorRecord(resp) ==
    /\ resp.kind = "json" /\ resp.expenses # <<>>
    /\ resp.expenses[1].status = "ERROR"

IsLookupFailure(resp) == resp.kind \in {"raise", "http"}

\* Every lookup of the task so far answered NOT_FOUND or PROCESSING.
OnlyPendingSeen(t) ==
    t.clean /\ (t.resp = NoResponse \/ IsNotFound(t.resp) \/ IsProcessing(t.resp))

HandlerOf(r) == r[1]
\* The handler is past the try/except/finally of receipt r.
PastReceipt(r) == hidx[r[1]] > r[2] \/ hpc[r[1]] \in {"done", "crashed"}

\* ------------------------------------------------------------------ claims

\* C1: every poller thread that has ended has ended in one of COMPLETED,
\* ERROR, LOOKUP_FAILED, TIMED_OUT, having emitted exactly one terminal
\* notification.
C1_OneTerminalOutcome ==
    \A r \in ReceiptIds :
        Ended(task[r]) => task[r].pc \in Terminal /\ TerminalNotes(task[r]) = 1

\* C2: a poller that has ended and whose lookups only ever answered NOT_FOUND
\* or PROCESSING made exactly MAX_POLLS lookups, emitted exactly MAX_POLLS
\* progress notifications and then exactly one timeout notification.
C2_OnlyPendingTimesOut ==
    \A r \in ReceiptIds :
        Ended(task[r]) /\ OnlyPendingSeen(task[r]) =>
            /\ task[r].pc = "TIMED_OUT"
            /\ task[r].lookups = MAX_POLLS
            /\ task[r].pending = MAX_POLLS
            /\ task[r].timeout = 1
            /\ task[r].success = 0 /\ task[r].error = 0

\* C3: when the k-th lookup is the first to answer a COMPLETED record and all
\* earlier ones answered NOT_FOUND or PROCESSING, the poller has emitted k - 1
\* pending notifications and then one success notification with the record's
\* merchant, amount and date, has made k <= MAX_POLLS lookups, never emits a
\* timeout notification, and does nothing more.
C3_State ==
    \A r \in ReceiptIds :
        LET t == task[r] IN
        Reported(t) /\ t.clean /\ IsCompleted(t.resp) =>
            /\ t.pc = "COMPLETED"
            /\ t.lookups >= 1 /\ t.lookups <= MAX_POLLS
            /\ t.pending = t.lookups - 1
            /\ t.success = 1 /\ t.timeout = 0 /\ t.error = 0
            /\ t.note.class = "success"
            /\ t.note.merchant = t.resp.expenses[1].merchant
            /\ t.note.dollars.major * 100 + t.note.dollars.minor = t.resp.expenses[1].amount
            /\ t.note.dollars.minor \in 0..99
            /\ t.note.date * 86400 <= t.resp.expenses[1].created
            /\ t.resp.expenses[1].created < (t.note.date + 1) * 86400
            /\ (t.resp.expenses[1] = ExpCompleted =>
                    /\ t.note.merchant = "Cafe X"
                    /\ t.note.dollars = [major |-> 42, minor |-> 0]
                    /\ t.note.date = 2)

C3_Step ==
    \A r \in ReceiptIds : task[r].pc = "COMPLETED" => task'[r] = task[r]

C3_FirstCompleted == []C3_State /\ [][C3_Step]_vars

C3_Witness ==
    \E r \in ReceiptIds :
        /\ task[r].pc = "COMPLETED" /\ task[r].clean
        /\ task[r].resp.expenses = <<ExpCompleted>>
        /\ task[r].lookups = 2 /\ task[r].pending = 1 /\ task[r].success = 1

\* C4: a lookup that fails at the transport level (the call raises, or a
\* non-200 answer) on any attempt leaves the poller in LOOKUP_FAILED with
\* exactly one error notification and no timeout or success notification,
\* and the poller then makes no further lookup and emits nothing more.
C4_State ==
    \A r \in ReceiptIds :
        LET t == task[r] IN
        Reported(t) /\ IsLookupFailure(t.resp) =>
            /\ t.pc = "LOOKUP_FAILED"
            /\ t.error = 1 /\ t.timeout = 0 /\ t.success = 0
            /\ t.pending = t.lookups - 1
            /\ t.note.class = "error"

C4_Step ==
    \A r \in ReceiptIds : task[r].pc = "LOOKUP_FAILED" => task'[r] = task[r]

C4_LookupFailureStops == []C4_State /\ [][C4_Step]_vars

\* the failure comes on attempt 1 with attempts remaining
C4_Witness ==
    \E r \in ReceiptIds :
        /\ task[r].pc = "LOOKUP_FAILED" /\ IsLookupFailure(task[r].resp)
        /\ task[r].lookups = 1 /\ task[r].attempt < MAX_POLLS
        /\ task[r].error = 1

\* C5: a lookup answer that is not parseable as JSON is reported as a lookup
\* error: the poller is in LOOKUP_FAILED with one error notification, and the
\* answer produced no pending notification.
C5_UnparseableIsError ==
    \A r \in ReceiptIds :
        LET t == task[r] IN
        Reported(t) /\ t.pc # "CRASHED" /\ t.resp.kind = "text" =>
            /\ t.pc = "LOOKUP_FAILED"
            /\ t.note.class = "error"
            /\ t.error = 1
            /\ t.pending = t.lookups - 1

\* C6: a lookup answering a record with status ERROR leaves the poller in
\* ERROR with an error notification carrying the record's errorDetail, and
\* no pending, success or timeout notification for that answer.
C6_ErrorRecordIsTerminal ==
    \A r \in ReceiptIds :
        LET t == task[r] IN
        Reported(t) /\ t.pc # "CRASHED" /\ IsErrorRecord(t.resp) =>
            /\ t.pc = "ERROR"
            /\ t.note.class = "error"
            /\ t.note.detail = t.resp.expenses[1].errorDetail
            /\ t.error = 1 /\ t.success = 0 /\ t.timeout = 0
            /\ t.pending = t.lookups - 1

\* C7: per correlation key (file name) at most one poller is in flight
\* (started and not ended).
InFlight(n) == {r \in ReceiptIds : task[r].key = n /\ task[r].pc \in {"loop", "slept"}}

C7_OneTrackerPerKey == \A n \in Names : Cardinality(InFlight(n)) <= 1

\* C8: for a receipt whose submission failed no poller is ever started, no
\* lookup is ever made and, once the handler is through its except clause,
\* exactly one failure message has been emitted (none before, never two).
SubmitFailures == {"rejected", "raise", "nofile"}

C8_FailedSubmitNoTracker ==
    \A r \in ReceiptIds :
        rcpt[r].submit \in SubmitFailures =>
            /\ task[r] = NoTask
            /\ rcpt[r].spawned = 0
            /\ rcpt[r].ackSaid = 0
            /\ rcpt[r].downloadSaid = 0
            /\ rcpt[r].failSaid =
                  IF hpc[HandlerOf(r)] = "except" /\ Cur(HandlerOf(r)) = r THEN 0 ELSE 1

C8_Witness ==
    \E r \in ReceiptIds :
        /\ rcpt[r].submit = "rejected" /\ rcpt[r].failSaid = 1 /\ PastReceipt(r)
        /\ \E q \in ReceiptIds : q # r /\ rcpt[q].submit = "raise" /\ rcpt[q].failSaid = 1

\* C9: once the handler is past the acknowledgment of a submission the
\* ledger accepted, a poller has been started for the receipt, and an
\* accepted submission is never reported as failed.
C9_AcceptedIsTracked ==
    \A r \in ReceiptIds :
        rcpt[r].submit = "accepted" =>
            /\ rcpt[r].failSaid = 0
            /\ (rcpt[r].ackSaid > 0 => rcpt[r].spawned = 1 /\ task[r].pc # "none")

\* C10: a failed fetch of one file (non-200 download, or files_info / the
\* download raising) stops the processing of that file only: when the handler
\* has ended, every other allow-listed file of the event has been fetched.
C10_SiblingsContinue ==
    \A h \in Handlers :
        hpc[h] \in {"done", "crashed"} =>
            \A i, j \in 1..Len(events[h]) :
                /\ i # j
                /\ rcpt[<<h, i>>].fetch \in {"http", "raise"}
                /\ events[h][j].filetype \in VALID_FILETYPES
                => rcpt[<<h, j>>].fetch # "none"

\* C11: a poller's step changes nothing but that poller (not another poller,
\* not a handler, not the temporary files); whatever the other pollers have
\* come to, a running poller can take its next step, and a handler can have
\* its submission accepted and its poller started.
C11_Step ==
    \A r \in ReceiptIds :
        task[r].pc # "none" /\ task'[r] # task[r] =>
            /\ \A q \in ReceiptIds \ {r} : task'[q] = task[q]
            /\ UNCHANGED <<MAX_POLLS, events, hpc, hidx, hexc, tmp, rcpt>>

C11_State ==
    /\ \A r \in ReceiptIds :
          /\ task[r].pc = "loop" => ENABLED (Sleep(r) \/ GiveUp(r))
          /\ task[r].pc = "slept" =>
                /\ ENABLED (LookupAndReport(r) /\ task'[r].pc = "COMPLETED")
                /\ ENABLED (LookupAndReport(r) /\ task'[r].pc = "loop")
          /\ task[r].pc \in {"loop", "slept"} =>
                task[r].attempt = task[r].waits /\ task[r].attempt <= MAX_POLLS
    /\ \A h \in Handlers :
          /\ hpc[h] = "submit" /\ tmp[CurFile(h).name] # NoBytes =>
                ENABLED (Submit(h) /\ hpc'[h] = "ack")
          /\ hpc[h] = "ack" => ENABLED (AckAndSpawn(h) /\ task'[Cur(h)].pc = "loop")

C11_Independent == []C11_State /\ [][C11_Step]_vars

\* two pollers with different keys: one has failed, the other polls on
C11_Witness ==
    \E r, q \in ReceiptIds :
        /\ task[r].key # task[q].key
        /\ task[r].pc \in {"LOOKUP_FAILED", "TIMED_OUT", "CRASHED"}
        /\ task[q].pc = "slept" /\ task[q].lookups >= 1

\* C12: a looked-up record whose amount is 0 or absent gets a pending
\* notification and never a success notification nor COMPLETED; a success
\* notification is only ever emitted for a record with a non-zero amount.
HasRecord(resp) == resp.kind = "json" /\ resp.expenses # <<>>

ZeroAmount(resp) ==
    HasRecord(resp)
    /\ (~resp.expenses[1].hasAmount \/ resp.expenses[1].amount = 0)

C12_State ==
    \A r \in ReceiptIds :
        LET t == task[r] IN
        /\ Reported(t) /\ ZeroAmount(t.resp) =>
              /\ t.note.class \in {"pending", "timeout"}
              /\ t.pc \in {"loop", "CRASHED", "TIMED_OUT"}
              /\ t.pending >= 1
              /\ t.success = 0
        /\ t.success > 0 =>
              /\ HasRecord(t.resp)
              /\ t.resp.expenses[1].hasAmount /\ t.resp.expenses[1].amount # 0

\* the lookup that is answered with such a record is reported as pending
C12_Step ==
    \A r \in ReceiptIds :
        task'[r].lookups # task[r].lookups /\ ZeroAmount(task'[r].resp) =>
            /\ task'[r].note.class = "pending"
            /\ task'[r].pending = task[r].pending + 1
            /\ task'[r].success = 0
            /\ task'[r].pc \in {"loop", "CRASHED"}

C12_ZeroAmountIsProcessing == []C12_State /\ [][C12_Step]_vars

C12_Witness ==
    \E r \in ReceiptIds :
        /\ task[r].pc = "loop" /\ task[r].resp.expenses = <<ExpNoAmount>>
        /\ task[r].pending = 2 /\ task[r].success = 0

\* C13: a file whose type is not png, jpg, jpeg or pdf causes no download, no
\* submission, no message and no poller, and the handler goes on to the next
\* file of the event.
AllowList == {"png", "jpg", "jpeg", "pdf"}

Ignored(r) ==
    /\ r[2] <= Len(events[r[1]])
    /\ events[r[1]][r[2]].filetype \notin AllowList

C13_State ==
    \A r \in ReceiptIds : Ignored(r) => rcpt[r] = NoReceipt /\ task[r] = NoTask

C13_Step ==
    \A h \in Handlers :
        /\ hidx[h] <= Len(events[h]) /\ hpc[h] = "loop" /\ Ignored(Cur(h))
        /\ <<hpc'[h], hidx'[h]>> # <<hpc[h], hidx[h]>>
        => /\ hpc'[h] = "loop" /\ hidx'[h] = hidx[h] + 1
           /\ UNCHANGED <<tmp, rcpt, task>>

C13_OtherTypesIgnored == []C13_State /\ [][C13_Step]_vars

C13_Witness ==
    \E h \in Handlers :
        /\ Len(events[h]) = 2 /\ Ignored(<<h, 1>>)
        /\ rcpt[<<h, 1>>] = NoReceipt
        /\ rcpt[<<h, 2>>].fetch = "ok" /\ task[<<h, 2>>].pc # "none"

\* C14: within one poller every lookup is immediately preceded by one wait,
\* every lookup is followed by its cycle's notification before the next wait
\* begins, so waits, lookups and cycle notifications advance in step.
CycleNotes(t) == t.pending + t.success + t.error

C14_State ==
    \A r \in ReceiptIds :
        LET t == task[r] IN
        /\ t.pc = "slept" => t.waits = t.lookups + 1 /\ CycleNotes(t) = t.lookups
        /\ t.pc # "slept" => t.waits = t.lookups /\ CycleNotes(t) = t.lookups

C14_Step ==
    \A r \in ReceiptIds :
        /\ task'[r].lookups # task[r].lookups =>
              /\ task[r].pc = "slept"
              /\ task'[r].lookups = task[r].lookups + 1
              /\ task'[r].waits = task[r].waits
              /\ CycleNotes(task'[r]) = CycleNotes(task[r]) + 1
        /\ task'[r].waits # task[r].waits =>
              /\ task[r].pc = "loop" /\ task'[r].pc = "slept"
              /\ task'[r].waits = task[r].waits + 1
              /\ task'[r].lookups = task[r].lookups
              /\ CycleNotes(task[r]) = task[r].lookups
              /\ CycleNotes(task'[r]) = CycleNotes(task[r])

C14_CycleOrder == []C14_State /\ [][C14_Step]_vars

C14_Witness ==
    \E r \in ReceiptIds :
        task[r].waits = 2 /\ task[r].lookups = 2 /\ task[r].pending = 2

\* C15: a progress notification shows the number of lookups made so far: the
\* j-th one shows attempt j, and never more than MAX_POLLS.
C15_State ==
    \A r \in ReceiptIds :
        LET t == task[r] IN
        t.note.class = "pending" =>
            /\ t.note.attempt = t.lookups
            /\ t.note.attempt = t.pending
            /\ t.note.attempt >= 1 /\ t.note.attempt <= MAX_POLLS

C15_Step ==
    \A r \in ReceiptIds :
        task'[r].pending # task[r].pending =>
            /\ task'[r].pending = task[r].pending + 1
            /\ task'[r].note = [NoNote EXCEPT !.class = "pending",
                                              !.attempt = task[r].pending + 1]

C15_AttemptShown == []C15_State /\ [][C15_Step]_vars

C15_Witness ==
    \E r \in ReceiptIds :
        /\ task[r].note.class = "pending" /\ task[r].note.attempt = 2
        /\ task[r].pending = 2 /\ task[r].pc = "loop"

\* C16: the amount shown in a success message is the record's amount in major
\* units: digits only apart from one "." followed by exactly two digits and
\* "," separators, it reads as the amount (whole part a div 100, hundredths
\* a mod 100), and the whole part has no leading zero and a "," exactly before
\* every group of three digits.
DigitChars == {DigitChar(n) : n \in 0..9}
DigitValue(c) == CHOOSE n \in 0..9 : DigitChar(n) = c

\* the number a text spells, "," and "." skipped
RECURSIVE Reading(_)
Reading(txt) ==
    IF txt = <<>> THEN 0
    ELSE LET front == SubSeq(txt, 1, Len(txt) - 1)
             c == txt[Len(txt)]
         IN  IF c \in DigitChars THEN 10 * Reading(front) + DigitValue(c) ELSE Reading(front)

WellFormedAmount(txt, a) ==
    LET n == Len(txt)
        whole == SubSeq(txt, 1, n - 3)
    IN  /\ n >= 4
        /\ txt[n - 2] = "."
        /\ txt[n - 1] \in DigitChars /\ txt[n] \in DigitChars
        /\ 10 * DigitValue(txt[n - 1]) + DigitValue(txt[n]) = a % 100
        /\ Reading(whole) = a \div 100
        /\ Reading(txt) = a
        /\ \A i \in 1..Len(whole) :
              \* k counts positions of the whole part from its right end
              LET k == Len(whole) - i + 1
              IN  IF k % 4 = 0 THEN whole[i] = "," ELSE whole[i] \in DigitChars
        /\ whole[1] \in DigitChars
        /\ (whole[1] = "0" => Len(whole) = 1)

C16_AmountShown ==
    \A r \in ReceiptIds :
        LET t == task[r] IN
        t.note.class = "success" =>
            LET a == t.resp.expenses[1].amount IN
            /\ a # 0
            /\ WellFormedAmount(t.note.amountText, a)
            /\ t.note.dollars = [major |-> a \div 100, minor |-> a % 100]
            /\ (a = 12345 => t.note.amountText = <<"1", "2", "3", ".", "4", "5">>)
            /\ (a = 4200 => t.note.amountText = <<"4", "2", ".", "0", "0">>)
            /\ (a = 5 => t.note.amountText = <<"0", ".", "0", "5">>)
            /\ (a = 123456789 =>
                  t.note.amountText =
                     <<"1", ",", "2", "3", "4", ",", "5", "6", "7", ".", "8", "9">>)

C16_Witness ==
    /\ task[FmtReceipt].note.class = "success"
    /\ task[FmtReceipt].resp.expenses[1].amount = 123456
    /\ task[FmtReceipt].note.amountText = <<"1", ",", "2", "3", "4", ".", "5", "6">>

\* C17: a poller does not end on a progress notification: when it has ended,
\* its last message is a terminal one (success, error or timeout), also
\* after a progress notification whose delivery failed.
C17_FailedDeliveryGoesOn ==
    \A r \in ReceiptIds :
        Ended(task[r]) => task[r].note.class \in {"success", "error", "timeout"}

\* C18: when the ledger holds an older expense with the same externalID (an
\* earlier file of the same event with the same name was accepted), the
\* success message of the later receipt's poller reports the expense its own
\* submission created.
OlderHolders(r) == {q \in Holders(ExternalID(r)) : q[1] = r[1] /\ q[2] < r[2]}

C18_ReportsOwnRecord ==
    \A r \in ReceiptIds :
        task[r].success > 0 /\ OlderHolders(r) # {} => task[r].origin = r

\* C19: every submission finds its temporary file and uploads the bytes its
\* own handler downloaded.
C19_OwnBytesUploaded ==
    \A r \in ReceiptIds :
        /\ rcpt[r].submit # "nofile"
        /\ rcpt[r].uploaded # NoBytes => rcpt[r].uploaded = r

\* C20: a poller is started only after the upload acknowledgment of its
\* receipt was said, it starts with no notification emitted, and the handler
\* goes on (unlink, next file) whatever state the poller is in.
C20_State ==
    /\ \A r \in ReceiptIds :
          task[r].pc # "none" => rcpt[r].ackSaid = 1 /\ rcpt[r].spawned = 1
    /\ \A h \in Handlers : hpc[h] = "finally" => ENABLED Unlink(h)

C20_Step ==
    \A r \in ReceiptIds :
        task[r].pc = "none" /\ task'[r].pc # "none" =>
            /\ rcpt'[r].ackSaid = 1
            /\ task'[r].pc = "loop"
            /\ task'[r].lookups = 0
            /\ CycleNotes(task'[r]) + task'[r].timeout = 0

C20_AckBeforeTracker == []C20_State /\ [][C20_Step]_vars

\* the handler is done with the receipt while its poller is still polling
C20_Witness ==
    \E r \in ReceiptIds :
        /\ PastReceipt(r) /\ rcpt[r].ackSaid = 1
        /\ task[r].pc = "slept" /\ task[r].pending >= 1
====
